---- MODULE Spec2Model ----
(***************************************************************************)
(* Model of the `test_stubs` attribute macro (src/src/lib.rs).             *)
(*                                                                         *)
(* The macro parses a trait, pushes `#[allow(unreachable_code)]` on it and *)
(* walks the trait's items: every method without a default body is emitted *)
(* twice (`#[cfg(not(test))]` without body, `#[cfg(test)]` with a stub     *)
(* body built by stub_expr_for_ty), every other item is copied.            *)
(*                                                                         *)
(* Syntax trees are records of one shape per sort, so that any two values  *)
(* of a sort can be compared.                                              *)
(***************************************************************************)
EXTENDS Integers, Sequences, FiniteSets, TLC

VARIABLES pc, trait_attrs, input_items, trait_items, rest, new_items

vars == <<pc, trait_attrs, input_items, trait_items, rest, new_items>>

(***************************************************************************)
(* Bounds of the model.                                                    *)
(***************************************************************************)
MaxItems == 2
MaxWhere == 2
MaxDepth == 2
MaxTupleLen == 2

(***************************************************************************)
(* Attributes: `#[path]`, `#[path(tokens)]`, `#[path = tokens]`.           *)
(***************************************************************************)
Attr(path, meta, tokens) == [path |-> path, meta |-> meta, tokens |-> tokens]

CfgTest == Attr("cfg", "List", "test")
CfgNotTest == Attr("cfg", "List", "not(test)")
AllowUnusedVariables == Attr("allow", "List", "unused_variables")
AllowUnreachableCode == Attr("allow", "List", "unreachable_code")
DocAttr == Attr("doc", "NameValue", "text")
InlineAttr == Attr("inline", "Path", "")
TestListAttr == Attr("test", "List", "cfg")

(***************************************************************************)
(* Types (syn::Type).  Only the last segment of a path type is inspected   *)
(* by the macro, so a path type is its last segment: ident and arguments.  *)
(***************************************************************************)
NoArguments == [kind |-> "None", args |-> <<>>]
Parenthesized == [kind |-> "Parenthesized", args |-> <<>>]
AngleBracketed(args) == [kind |-> "AngleBracketed", args |-> args]

MkType(kind, ident, arguments, elems, bounds) ==
    [kind |-> kind, ident |-> ident, arguments |-> arguments,
     elems |-> elems, bounds |-> bounds]

NoType == MkType("None", "", NoArguments, <<>>, <<>>)
PathTy(ident, arguments) == MkType("Path", ident, arguments, <<>>, <<>>)
TupleTy(elems) == MkType("Tuple", "", NoArguments, elems, <<>>)
ImplTraitTy(bounds) == MkType("ImplTrait", "", NoArguments, <<>>, bounds)
\* references, arrays, slices, pointers, `!`, ...: no arm of their own
OtherTy(what) == MkType(what, "", NoArguments, <<>>, <<>>)

TypeArg(ty) == [kind |-> "Type", ty |-> ty]
LifetimeArg == [kind |-> "Lifetime", ty |-> NoType]
ConstArg == [kind |-> "Const", ty |-> NoType]
AssocTypeArg == [kind |-> "AssocType", ty |-> NoType]

TraitBound(segments) == [kind |-> "Trait", segments |-> segments]
LifetimeBound == [kind |-> "Lifetime", segments |-> <<>>]

(***************************************************************************)
(* Expressions produced by quote!, as syn parses them back in              *)
(* `parse_quote!({ #stubexpr })`.                                          *)
(***************************************************************************)
MkExpr(kind, name, elems) == [kind |-> kind, name |-> name, elems |-> elems]

Todo(name) == MkExpr("Todo", name, <<>>)
CastEmpty(e) == MkExpr("CastIterEmpty", "", <<e>>)
Call(f, e) == MkExpr("Call", f, <<e>>)
TupleExpr(es) == MkExpr("Tuple", "", es)
ParenExpr(e) == MkExpr("Paren", "", <<e>>)
\* the outcome of a call that does not return: `Option::unwrap` on `None`
Unwound == MkExpr("Unwound", "", <<>>)

NoDefault == MkExpr("None", "", <<>>)
Block(e) == MkExpr("Block", "", <<e>>)
UserBody == Block(MkExpr("User", "", <<>>))

(***************************************************************************)
(* Where predicates and method signatures.                                 *)
(***************************************************************************)
BoundedPath(qself, segments) ==
    [kind |-> "Path", qself |-> qself, segments |-> segments]
BoundedOther == [kind |-> "Other", qself |-> FALSE, segments |-> <<>>]

TypePred(bounded_ty, bounds) ==
    [kind |-> "Type", bounded_ty |-> bounded_ty, bounds |-> bounds]
LifetimePred == [kind |-> "Lifetime", bounded_ty |-> BoundedOther, bounds |-> <<>>]

SelfSized == TypePred(BoundedPath(FALSE, <<"Self">>), <<TraitBound(<<"Sized">>)>>)
SelfClone == TypePred(BoundedPath(FALSE, <<"Self">>), <<TraitBound(<<"Clone">>)>>)
SelfCloneSized ==
    TypePred(BoundedPath(FALSE, <<"Self">>),
             <<TraitBound(<<"Clone">>), TraitBound(<<"Sized">>)>>)
TSized == TypePred(BoundedPath(FALSE, <<"T">>), <<TraitBound(<<"Sized">>)>>)
SelfItemSized ==
    TypePred(BoundedPath(FALSE, <<"Self", "Item">>), <<TraitBound(<<"Sized">>)>>)
SelfMarkerSized ==
    TypePred(BoundedPath(FALSE, <<"Self">>),
             <<TraitBound(<<"std", "marker", "Sized">>)>>)

NoWhere == [some |-> FALSE, predicates |-> <<>>]
Where(preds) == [some |-> TRUE, predicates |-> preds]

Receiver(reference, mutable) ==
    [kind |-> "Receiver", reference |-> reference, mutable |-> mutable]
TypedArg == [kind |-> "Typed", reference |-> FALSE, mutable |-> FALSE]

RefSelf == Receiver(TRUE, FALSE)
RefMutSelf == Receiver(TRUE, TRUE)
ValueSelf == Receiver(FALSE, FALSE)

DefaultReturn == [kind |-> "Default", ty |-> NoType]
ReturnTy(ty) == [kind |-> "Type", ty |-> ty]

(***************************************************************************)
(* Trait items (syn::TraitItem).                                           *)
(***************************************************************************)
MkItem(kind, attrs, ident, inputs, where_clause, output, default) ==
    [kind |-> kind, attrs |-> attrs, ident |-> ident, inputs |-> inputs,
     where_clause |-> where_clause, output |-> output, default |-> default]

Method(attrs, ident, inputs, where_clause, output, default) ==
    MkItem("Fn", attrs, ident, inputs, where_clause, output, default)
OtherItem(kind, attrs, ident) ==
    MkItem(kind, attrs, ident, <<>>, NoWhere, DefaultReturn, NoDefault)

(***************************************************************************)
(* Small sequence helpers.                                                 *)
(***************************************************************************)
SeqsUpTo(S, n) == UNION {[1..k -> S] : k \in 0..n}

(***************************************************************************)
(* lib.rs 91-94: the test for "already #[cfg(test)]".  `x.path()` is the   *)
(* path of `x.meta`, and for `Meta::List(y)` the list's own path `y.path`  *)
(* is that same path (`cfg` in `#[cfg(test)]`); `test` is in `y.tokens`,   *)
(* which the closure does not read.                                        *)
(***************************************************************************)
is_ident(path, ident) == path = ident

attr_is_cfg_test(x) ==
    is_ident(x.path, "cfg") /\ (x.meta = "List" /\ is_ident(x.path, "test"))

already_cfg_test(meth) ==
    \E i \in 1..Len(meth.attrs) : attr_is_cfg_test(meth.attrs[i])

(***************************************************************************)
(* lib.rs 147-162                                                          *)
(***************************************************************************)
bound_is_sized(y) ==
    y.kind = "Trait" /\ Len(y.segments) = 1 /\ y.segments[1] = "Sized"

\* is_self_sized_pred without the test of the bounded type
is_self_sized_pred_any_type(pred) ==
    /\ pred.kind = "Type"
    /\ \E i \in 1..Len(pred.bounds) : bound_is_sized(pred.bounds[i])

is_self_sized_pred(pred) ==
    /\ pred.kind = "Type"
    /\ pred.bounded_ty.kind = "Path"
    /\ ~pred.bounded_ty.qself
    /\ Len(pred.bounded_ty.segments) = 1
    /\ pred.bounded_ty.segments[1] = "Self"
    /\ \E i \in 1..Len(pred.bounds) : bound_is_sized(pred.bounds[i])

(***************************************************************************)
(* lib.rs 116-125: `where Self: Sized` for a by-value receiver.            *)
(***************************************************************************)
takes_self_by_value(inputs) ==
    /\ Len(inputs) > 0
    /\ inputs[1].kind = "Receiver"
    /\ ~inputs[1].reference

\* Generics::make_where_clause: the clause, created empty when absent
make_where_clause(where_clause) == Where(where_clause.predicates)

ensure_self_sized(where_clause) ==
    LET wheres == make_where_clause(where_clause)
    IN  IF ~\E i \in 1..Len(wheres.predicates) :
                is_self_sized_pred(wheres.predicates[i])
        THEN Where(Append(wheres.predicates, SelfSized))
        ELSE wheres

test_where_clause(sig_inputs, where_clause) ==
    IF takes_self_by_value(sig_inputs)
    THEN ensure_self_sized(where_clause)
    ELSE where_clause

(***************************************************************************)
(* lib.rs 177-223: stub_expr_for_ty.                                       *)
(***************************************************************************)
\* bound_is_iterator with `is_ident`: the whole path must be `Iterator`
bound_is_iterator_ident(x) ==
    x.kind = "Trait" /\ Len(x.segments) = 1 /\ x.segments[1] = "Iterator"

\* 181-183: some bound is a trait bound whose last path segment is Iterator
bound_is_iterator(x) ==
    x.kind = "Trait" /\ x.segments[Len(x.segments)] = "Iterator"

\* 179-190
impl_trait_stub(bounds, name) ==
    IF \E i \in 1..Len(bounds) : bound_is_iterator(bounds[i])
    THEN CastEmpty(Todo(name))
    ELSE Todo(name)

\* 195-202: find_map over the generic arguments; 0 stands for None
first_type_arg(args) ==
    IF \E i \in 1..Len(args) : args[i].kind = "Type"
    THEN CHOOSE i \in 1..Len(args) :
             /\ args[i].kind = "Type"
             /\ \A j \in 1..(i - 1) : args[j].kind # "Type"
    ELSE 0

\* wrap_stub with the arm of Result wrapping like that of Option
wrap_stub_result_some(ident, stub, name) ==
    CASE ident = "Box" -> Call("Box::new", stub)
      [] ident = "Option" -> Call("Some", stub)
      [] ident = "Result" -> Call("Some", stub)
      [] OTHER -> Todo(name)

\* 207-212
wrap_stub(ident, stub, name) ==
    CASE ident = "Box" -> Call("Box::new", stub)
      [] ident = "Option" -> Call("Some", stub)
      [] ident = "Result" -> Call("Ok", stub)
      [] OTHER -> Todo(name)

\* 219: `quote! { (#(#elems),*) }` separates the elements by commas and
\* writes no trailing comma; 134: syn parses `()` as the empty tuple,
\* `(e)` as a parenthesized expression and `(e1, e2, ...)` as a tuple.
tuple_stub(elems) ==
    IF Len(elems) = 1 THEN ParenExpr(elems[1]) ELSE TupleExpr(elems)

RECURSIVE stub_expr_for_ty(_, _)
stub_expr_for_ty(ty, name) ==
    CASE ty.kind = "ImplTrait" -> impl_trait_stub(ty.bounds, name)
      [] ty.kind = "Path" ->
            IF ty.arguments.kind = "AngleBracketed"
            THEN LET i == first_type_arg(ty.arguments.args)
                 IN  IF i = 0
                     THEN Unwound      \* 202: unwrap() of None
                     ELSE LET stub == stub_expr_for_ty(ty.arguments.args[i].ty, name)
                          IN  IF stub = Unwound
                              THEN Unwound
                              ELSE wrap_stub(ty.ident, stub, name)
            ELSE Todo(name)
      [] ty.kind = "Tuple" ->
            LET elems == [i \in 1..Len(ty.elems) |->
                             stub_expr_for_ty(ty.elems[i], name)]
            IN  IF \E i \in 1..Len(elems) : elems[i] = Unwound
                THEN Unwound
                ELSE tuple_stub(elems)
      [] OTHER -> Todo(name)

\* 127-133
stub_expr(sig_ident, output) ==
    IF output.kind = "Default"
    THEN Todo(sig_ident)
    ELSE stub_expr_for_ty(output.ty, sig_ident)

(***************************************************************************)
(* lib.rs 88-139: one iteration of the loop over the trait's items.        *)
(***************************************************************************)
\* not_test_variant pushing the attribute of the other variant
not_test_variant_cfg_test(meth) ==
    [meth EXCEPT !.attrs = Append(@, CfgTest)]

\* 100-101
not_test_variant(meth) ==
    [meth EXCEPT !.attrs = Append(@, CfgNotTest)]

\* 105-112
test_attrs(attrs) ==
    attrs \o <<CfgTest, AllowUnusedVariables, AllowUnreachableCode>>

\* 105-134
test_variant(meth) ==
    [meth EXCEPT !.attrs = test_attrs(@),
                 !.where_clause = test_where_clause(meth.inputs, @),
                 !.default = Block(stub_expr(meth.ident, meth.output))]

\* is_bodyless_fn without the guard `if meth.default.is_none()`
is_bodyless_fn_unguarded(item) == item.kind = "Fn"

\* 89: the arm `TraitItem::Fn(mut meth) if meth.default.is_none()`
is_bodyless_fn(item) == item.kind = "Fn" /\ item.default = NoDefault

\* 91-97
emitted_unchanged(item) == ~is_bodyless_fn(item) \/ already_cfg_test(item)

\* emit with the two variants in the other order
emit_swapped(item) ==
    IF emitted_unchanged(item)
    THEN <<item>>
    ELSE <<test_variant(item), not_test_variant(item)>>

\* the items one iteration pushes when it completes
emit(item) ==
    IF emitted_unchanged(item)
    THEN <<item>>
    ELSE <<not_test_variant(item), test_variant(item)>>

\* the iteration unwinds: 203/218 run into the unwrap() of line 202
unwinds(item) ==
    /\ ~emitted_unchanged(item)
    /\ stub_expr(item.ident, item.output) = Unwound

(***************************************************************************)
(* lib.rs 77-144: test_stubs, one action per step.                         *)
(*   pc = "start"  the trait is parsed (78)                                *)
(*   pc = "loop"   in the loop over the items (87-140)                     *)
(*   pc = "done"   the rewritten trait is returned (142-143)               *)
(*   pc = "unwound" the expansion panicked; no trait is returned           *)
(***************************************************************************)
\* 82-87
PushAllow ==
    /\ pc = "start"
    /\ trait_attrs' = Append(trait_attrs, AllowUnreachableCode)
    /\ new_items' = <<>>
    /\ rest' = trait_items
    /\ trait_items' = <<>>
    /\ pc' = "loop"
    /\ UNCHANGED input_items

\* 88-139, an iteration that completes
ProcessItem ==
    /\ pc = "loop"
    /\ rest # <<>>
    /\ ~unwinds(Head(rest))
    /\ new_items' = new_items \o emit(Head(rest))
    /\ rest' = Tail(rest)
    /\ UNCHANGED <<pc, trait_attrs, input_items, trait_items>>

\* 88-133, an iteration that panics at 202 after the push of line 102
ProcessItemUnwinds ==
    /\ pc = "loop"
    /\ rest # <<>>
    /\ unwinds(Head(rest))
    /\ new_items' = Append(new_items, not_test_variant(Head(rest)))
    /\ rest' = Tail(rest)
    /\ pc' = "unwound"
    /\ UNCHANGED <<trait_attrs, input_items, trait_items>>

\* 142-143
Finish ==
    /\ pc = "loop"
    /\ rest = <<>>
    /\ trait_items' = new_items
    /\ pc' = "done"
    /\ UNCHANGED <<trait_attrs, input_items, rest, new_items>>

Next == PushAllow \/ ProcessItem \/ ProcessItemUnwinds \/ Finish

(***************************************************************************)
(* Inputs.                                                                 *)
(***************************************************************************)
U8 == PathTy("u8", NoArguments)
Unit == TupleTy(<<>>)
RefTy == OtherTy("Reference")
SliceTy == OtherTy("Slice")
FnParenTy == PathTy("Fn", Parenthesized)
ImplIter == ImplTraitTy(<<TraitBound(<<"Iterator">>)>>)
ImplStdIter == ImplTraitTy(<<TraitBound(<<"std", "iter", "Iterator">>)>>)
ImplSendIter ==
    ImplTraitTy(<<TraitBound(<<"Send">>), TraitBound(<<"Iterator">>)>>)
ImplClone == ImplTraitTy(<<TraitBound(<<"Clone">>)>>)
ImplCloneLt == ImplTraitTy(<<TraitBound(<<"Clone">>), LifetimeBound>>)
\* `impl Iterator::Helper`: Iterator is a segment, not the last one
ImplIterHelper == ImplTraitTy(<<TraitBound(<<"Iterator", "Helper">>)>>)
\* `Foo<'a>`, `Foo<>`, `Foo<3>`, `Foo<Item = u8>`: no type argument
FooLt == PathTy("Foo", AngleBracketed(<<LifetimeArg>>))
FooEmpty == PathTy("Foo", AngleBracketed(<<>>))
FooConst == PathTy("Foo", AngleBracketed(<<ConstArg>>))
FooAssoc == PathTy("Foo", AngleBracketed(<<AssocTypeArg>>))

\* the types that are nested to any depth
Leaves == {U8, Unit, ImplIter, ImplClone, FooLt}

\* the types that are return types themselves or directly inside one
Shallow ==
    {RefTy, SliceTy, FnParenTy, ImplStdIter, ImplSendIter, ImplCloneLt,
     ImplIterHelper, FooEmpty, FooConst, FooAssoc}

WrapTypes(t) ==
    {PathTy("Box", AngleBracketed(<<TypeArg(t)>>)),
     PathTy("Option", AngleBracketed(<<TypeArg(t)>>)),
     PathTy("Result", AngleBracketed(<<TypeArg(t), TypeArg(U8)>>)),
     PathTy("Vec", AngleBracketed(<<TypeArg(t)>>)),
     PathTy("Cow", AngleBracketed(<<LifetimeArg, TypeArg(t)>>))}

\* tuples of 1..MaxTupleLen elements: `t` at one place, u8 elsewhere
TupleTypes(t) ==
    {TupleTy([j \in 1..x[1] |-> IF j = x[2] THEN t ELSE U8]) :
        x \in {y \in (1..MaxTupleLen) \X (1..MaxTupleLen) : y[2] <= y[1]}}

RECURSIVE Types(_)
Types(depth) ==
    IF depth = 0
    THEN Leaves
    ELSE LET inner == Types(depth - 1)
         IN  inner \cup UNION {WrapTypes(t) \cup TupleTypes(t) : t \in inner}

ReturnTypes ==
    {DefaultReturn}
    \cup {ReturnTy(ty) : ty \in Types(MaxDepth)}
    \cup {ReturnTy(ty) : ty \in Shallow}
    \cup {ReturnTy(ty) : ty \in UNION {WrapTypes(t) \cup TupleTypes(t) : t \in Shallow}}

WherePreds == {SelfSized, SelfClone}

WhereClauses ==
    {NoWhere}
    \cup {Where(preds) : preds \in SeqsUpTo(WherePreds, MaxWhere)}
    \cup {Where(<<pred>>) : pred \in {TSized, SelfCloneSized, SelfItemSized,
                                      SelfMarkerSized, LifetimePred}}

\* methods that differ in receiver and where clause
WhereMethods ==
    {Method(<<>>, "f", <<ValueSelf>>, wc, ReturnTy(U8), NoDefault) :
        wc \in WhereClauses}
    \cup {Method(<<>>, "f", inputs, wc, ReturnTy(U8), NoDefault) :
            inputs \in {<<>>, <<RefSelf>>, <<RefMutSelf>>},
            wc \in {NoWhere, Where(<<SelfSized>>)}}
    \cup {Method(<<>>, "f", inputs, NoWhere, ReturnTy(U8), NoDefault) :
            inputs \in {<<TypedArg>>, <<ValueSelf, TypedArg>>}}

\* methods that differ in attributes and in having a body
AttrMethods ==
    {Method(attrs, "g", <<ValueSelf>>, NoWhere, DefaultReturn, default) :
        attrs \in {<<>>, <<CfgTest>>, <<CfgNotTest>>, <<DocAttr>>,
                   <<InlineAttr, CfgTest>>},
        default \in {NoDefault, UserBody}}
    \cup {Method(<<TestListAttr>>, "g", <<ValueSelf>>, NoWhere, DefaultReturn,
                 NoDefault)}

\* methods that differ in return type
ReturnMethods ==
    {Method(<<>>, "h", <<RefSelf>>, NoWhere, ReturnTy(ty), NoDefault) :
        ty \in {Unit, FooLt, ImplIter, TupleTy(<<U8>>)}}

OtherItems ==
    {OtherItem("Type", <<>>, "A"), OtherItem("Const", <<>>, "C"),
     OtherItem("Macro", <<>>, "m"), OtherItem("Type", <<CfgTest>>, "B")}

TraitItems == WhereMethods \cup AttrMethods \cup ReturnMethods \cup OtherItems

InitWith(items) ==
    /\ pc = "start"
    /\ input_items = items
    /\ trait_items = items
    /\ rest = <<>>
    /\ new_items = <<>>

\* traits of up to MaxItems items
Init ==
    /\ trait_attrs = <<DocAttr>>
    /\ \E items \in SeqsUpTo(TraitItems, MaxItems) : InitWith(items)

Spec == Init /\ [][Next]_vars

\* traits of one method without body, over all return types
StubInit ==
    /\ trait_attrs = <<>>
    /\ \E name \in {"f", "g"}, output \in ReturnTypes :
          InitWith(<<Method(<<>>, name, <<RefSelf>>, NoWhere, output, NoDefault)>>)

StubSpec == StubInit /\ [][Next]_vars

(***************************************************************************)
(* Vocabulary of the properties, independent of the operators above.       *)
(***************************************************************************)
NoBody(item) == item.kind = "Fn" /\ item.default = NoDefault

HasAttr(item, attr) == \E i \in 1..Len(item.attrs) : item.attrs[i] = attr

\* the output item starts with the attributes of the input item
KeepsAttrs(out, item) ==
    /\ Len(out.attrs) >= Len(item.attrs)
    /\ SubSeq(out.attrs, 1, Len(item.attrs)) = item.attrs

\* the attributes an output item has after those of the input item
AddedAttrs(out, item) ==
    {out.attrs[i] : i \in (Len(item.attrs) + 1)..Len(out.attrs)}

\* where the output of the i-th input item starts in the output trait
Pos(i) == i + Cardinality({j \in 1..(i - 1) : NoBody(input_items[j])})

ExpectedLen ==
    Len(input_items) + Cardinality({j \in 1..Len(input_items) : NoBody(input_items[j])})

Done == pc = "done"

BodylessInputs == {i \in 1..Len(input_items) : NoBody(input_items[i])}

NotTestOf(i) == trait_items[Pos(i)]
TestOf(i) == trait_items[Pos(i) + 1]

SameSignature(a, b) ==
    /\ a.kind = b.kind
    /\ a.ident = b.ident
    /\ a.inputs = b.inputs
    /\ a.output = b.output

C3_OthersUnchanged ==
    Done =>
        /\ Len(trait_items) = ExpectedLen
        /\ \A i \in 1..Len(input_items) :
              ~NoBody(input_items[i]) => trait_items[Pos(i)] = input_items[i]

C3_Witness ==
    /\ Done
    /\ Len(input_items) = 2
    /\ input_items[1].kind = "Fn" /\ input_items[1].default = UserBody
    /\ HasAttr(input_items[1], CfgTest)
    /\ input_items[2].kind = "Type"
    /\ trait_items = input_items

(***************************************************************************)
(* Conditional compilation: an item is active in a build when each of its  *)
(* #[cfg(..)] attributes holds there.                                      *)
(***************************************************************************)
CfgHolds(attr, test) ==
    CASE attr.tokens = "test" -> test
      [] attr.tokens = "not(test)" -> ~test
      [] OTHER -> TRUE

Active(item, test) ==
    \A i \in 1..Len(item.attrs) :
        item.attrs[i].path = "cfg" => CfgHolds(item.attrs[i], test)

\* what an impl sees of a method: signature, where clause, having a body
Shape(item) ==
    [ident |-> item.ident, inputs |-> item.inputs, output |-> item.output,
     where_clause |-> item.where_clause, has_body |-> item.default # NoDefault]

ActiveMethods(items, test) ==
    LET IsActiveMethod(item) == item.kind = "Fn" /\ Active(item, test)
        active == SelectSeq(items, IsActiveMethod)
    IN  [k \in 1..Len(active) |-> Shape(active[k])]

ActiveVariants(i, test) ==
    {k \in {Pos(i), Pos(i) + 1} : Active(trait_items[k], test)}

\* in a test build every active method of the output has a body
C4_TestBuildComplete ==
    \A k \in 1..Len(trait_items) :
        (trait_items[k].kind = "Fn" /\ Active(trait_items[k], TRUE))
            => trait_items[k].default # NoDefault

\* in a non-test build the active methods are those of the input trait
C4_NonTestBuildSame ==
    ActiveMethods(trait_items, FALSE) = ActiveMethods(input_items, FALSE)

IsSelfSized(pred) ==
    /\ pred.kind = "Type"
    /\ pred.bounded_ty = BoundedPath(FALSE, <<"Self">>)
    /\ \E i \in 1..Len(pred.bounds) : pred.bounds[i] = TraitBound(<<"Sized">>)

CountSelfSized(where_clause) ==
    Cardinality({k \in 1..Len(where_clause.predicates) :
                    IsSelfSized(where_clause.predicates[k])})

OtherPreds(where_clause) ==
    LET IsOther(pred) == ~IsSelfSized(pred)
    IN  SelectSeq(where_clause.predicates, IsOther)

TakesSelf(m) ==
    /\ m.inputs # <<>>
    /\ m.inputs[1].kind = "Receiver"
    /\ ~m.inputs[1].reference

\* `&self`, `&mut self` or no receiver at all
TakesNoSelf(m) ==
    \/ m.inputs = <<>>
    \/ m.inputs[1].kind = "Typed"
    \/ m.inputs[1].kind = "Receiver" /\ m.inputs[1].reference

C5_NoOtherChange(i) ==
    LET m == input_items[i]
    IN  /\ NotTestOf(i).where_clause = m.where_clause
        /\ TakesNoSelf(m) => TestOf(i).where_clause = m.where_clause
        /\ TakesSelf(m) => OtherPreds(TestOf(i).where_clause) = OtherPreds(m.where_clause)

(***************************************************************************)
(* C5 as stated: for a body-less method taking `self` the #[cfg(test)]     *)
(* variant has a where clause with `Self: Sized` exactly once, every other *)
(* predicate kept; the #[cfg(not(test))] variant and both variants of a    *)
(* method taking `&self`, `&mut self` or no receiver get no predicate.     *)
(***************************************************************************)
C5_AsStated ==
    Done =>
        \A i \in BodylessInputs :
            /\ C5_NoOtherChange(i)
            /\ TakesSelf(input_items[i]) =>
                  /\ TestOf(i).where_clause.some
                  /\ CountSelfSized(TestOf(i).where_clause) = 1

(***************************************************************************)
(* C5 amended: for a body-less method taking `self` the #[cfg(test)]       *)
(* variant has a where clause with `Self: Sized`: one is added at the end  *)
(* when the method declares none, and when it declares some the predicates *)
(* are those of the method (as many `Self: Sized` as it declared); the     *)
(* rest as stated.                                                         *)
(***************************************************************************)
C5_Amended ==
    Done =>
        \A i \in BodylessInputs :
            LET m == input_items[i]
            IN  /\ C5_NoOtherChange(i)
                /\ TakesSelf(m) =>
                      /\ TestOf(i).where_clause.some
                      /\ CountSelfSized(TestOf(i).where_clause) >= 1
                      /\ TestOf(i).where_clause.predicates =
                            IF CountSelfSized(m.where_clause) = 0
                            THEN Append(m.where_clause.predicates, SelfSized)
                            ELSE m.where_clause.predicates

C5_Witness ==
    /\ Done
    /\ Len(input_items) = 2
    /\ NoBody(input_items[1]) /\ TakesSelf(input_items[1])
    /\ input_items[1].where_clause = Where(<<SelfClone, SelfSized>>)
    /\ TestOf(1).where_clause = Where(<<SelfClone, SelfSized>>)
    /\ NoBody(input_items[2]) /\ TakesSelf(input_items[2])
    /\ input_items[2].where_clause = NoWhere
    /\ TestOf(2).where_clause = Where(<<SelfSized>>)

(***************************************************************************)
(* C7: a body-less method that is already #[cfg(test)] is emitted exactly  *)
(* once and unchanged: the iteration that takes it pushes it and nothing   *)
(* else.                                                                   *)
(***************************************************************************)
C7_CfgTestUnchanged ==
    [][(/\ pc = "loop"
        /\ rest # <<>>
        /\ NoBody(Head(rest))
        /\ HasAttr(Head(rest), CfgTest))
          => new_items' = Append(new_items, Head(rest))]_vars

(***************************************************************************)
(* Stub bodies.                                                            *)
(***************************************************************************)
\* the expression in the body of the #[cfg(test)] variant
StubOf(i) == TestOf(i).default.elems[1]

\* Evaluation of a stub expression: operands are evaluated left to right
\* and todo!("n") panics with "not yet implemented: n".  The result is n
\* of the first todo! reached, "" when the expression yields a value.
RECURSIVE PanicsWith(_)
PanicsWith(e) ==
    CASE e.kind = "Todo" -> e.name
      [] e.kind = "Tuple" ->
            IF \E k \in 1..Len(e.elems) : PanicsWith(e.elems[k]) # ""
            THEN PanicsWith(e.elems[CHOOSE k \in 1..Len(e.elems) :
                    /\ PanicsWith(e.elems[k]) # ""
                    /\ \A j \in 1..(k - 1) : PanicsWith(e.elems[j]) = ""])
            ELSE ""
      [] OTHER -> PanicsWith(e.elems[1])

RECURSIVE TodoNames(_)
TodoNames(e) ==
    IF e.kind = "Todo"
    THEN {e.name}
    ELSE UNION {TodoNames(e.elems[k]) : k \in 1..Len(e.elems)}

ReturnTypeOf(i) == input_items[i].output.ty

IsTypeArg(arg) == arg.kind = "Type"

(***************************************************************************)
(* C2: whatever the return type, the body of the #[cfg(test)] variant      *)
(* panics with the method's own name and never returns a value.            *)
(***************************************************************************)
C2_StubPanics ==
    Done => \A i \in BodylessInputs : PanicsWith(StubOf(i)) = input_items[i].ident

(***************************************************************************)
(* C6: for `impl B1 + ... + Bn` the stub is `todo!(name) as                *)
(* std::iter::Empty<_>` iff some bound is a trait bound whose last path    *)
(* segment is Iterator; for every other impl type and for the types the    *)
(* macro knows nothing about (references, slices, paths without generic    *)
(* arguments) it is `todo!(name)` without a cast.                          *)
(***************************************************************************)
HasIteratorBound(ty) ==
    \E k \in 1..Len(ty.bounds) :
        /\ ty.bounds[k].kind = "Trait"
        /\ ty.bounds[k].segments[Len(ty.bounds[k].segments)] = "Iterator"

C6_ImplTraitStub ==
    Done =>
        \A i \in BodylessInputs :
            LET name == input_items[i].ident
                ty == ReturnTypeOf(i)
            IN  /\ (ty.kind = "ImplTrait" /\ HasIteratorBound(ty))
                      => StubOf(i) = CastEmpty(Todo(name))
                /\ (ty.kind = "ImplTrait" /\ ~HasIteratorBound(ty))
                      => StubOf(i) = Todo(name)
                /\ ty.kind \in {"Reference", "Slice"} => StubOf(i) = Todo(name)
                /\ (ty.kind = "Path" /\ ty.arguments.kind # "AngleBracketed")
                      => StubOf(i) = Todo(name)

C6_Witness ==
    /\ Done
    /\ ReturnTypeOf(1) = ImplSendIter
    /\ StubOf(1) = CastEmpty(Todo("g"))

(***************************************************************************)
(* C8: for a tuple type of n elements, n >= 0, the stub is a tuple         *)
(* expression of n elements, the i-th the stub of the i-th element type.   *)
(***************************************************************************)
C8_TupleStub ==
    Done =>
        \A i \in BodylessInputs :
            LET name == input_items[i].ident
                ty == ReturnTypeOf(i)
            IN  ty.kind = "Tuple" =>
                    /\ StubOf(i).kind = "Tuple"
                    /\ Len(StubOf(i).elems) = Len(ty.elems)
                    /\ \A k \in 1..Len(ty.elems) :
                          StubOf(i).elems[k] = stub_expr_for_ty(ty.elems[k], name)

(***************************************************************************)
(* C9: for a path type with angle-bracketed arguments whose first type     *)
(* argument is S, the stub is Box::new(stub(S)) for Box, Some(stub(S)) for *)
(* Option, Ok(stub(S)) for Result, at any depth, and todo!(name) for any   *)
(* other identifier; every todo! in it carries the method's name.          *)
(***************************************************************************)
C9_Expected(ident, inner, name) ==
    CASE ident = "Box" -> Call("Box::new", inner)
      [] ident = "Option" -> Call("Some", inner)
      [] ident = "Result" -> Call("Ok", inner)
      [] OTHER -> Todo(name)

C9_Example ==
    PathTy("Option", AngleBracketed(<<TypeArg(
        PathTy("Box", AngleBracketed(<<TypeArg(ImplIter)>>)))>>))

C9_WrapperStub ==
    Done =>
        \A i \in BodylessInputs :
            LET name == input_items[i].ident
                ty == ReturnTypeOf(i)
                args == ty.arguments.args
            IN  /\ TodoNames(StubOf(i)) \subseteq {name}
                /\ ty = C9_Example =>
                      StubOf(i) = Call("Some", Call("Box::new", CastEmpty(Todo(name))))
                /\ (/\ ty.kind = "Path"
                    /\ ty.arguments.kind = "AngleBracketed"
                    /\ \E k \in 1..Len(args) : IsTypeArg(args[k]))
                      => LET k == CHOOSE k \in 1..Len(args) :
                                    /\ IsTypeArg(args[k])
                                    /\ \A j \in 1..(k - 1) : ~IsTypeArg(args[j])
                         IN  StubOf(i) =
                                C9_Expected(ty.ident,
                                            stub_expr_for_ty(args[k].ty, name), name)

C9_Witness ==
    /\ Done
    /\ ReturnTypeOf(1) = C9_Example
    /\ StubOf(1) = Call("Some", Call("Box::new", CastEmpty(Todo("f"))))

(***************************************************************************)
(* C10: expansion never aborts on a syntactically valid trait.             *)
(***************************************************************************)
C10_NeverAborts == pc # "unwound"

====
